---- MODULE Spec2Model ----
(***************************************************************************)
(* A model of prontodex (src/main.py): the ProntoUploader media publisher, *)
(* the bubble.history poll cursor and dispatcher (monitor_messages), and   *)
(* the ball game (ballspawn, give, view, !list) over the db.json store.    *)
(*                                                                         *)
(* Python strings are sequences of one-character strings, so that slicing, *)
(* lower(), split(), the substring test and the !give regular expression   *)
(* are computed as the code computes them.                                 *)
(*                                                                         *)
(* Two specifications share the state.  SpecPublish runs send calls        *)
(* request by request against every response of the service.  Spec runs    *)
(* the poll loop and the game; there a send call of a handler is one step  *)
(* that ends in one of the ways SpecPublish shows a send call can end      *)
(* (SendOutcomes, checked by OutcomesCovered).                             *)
(***************************************************************************)
EXTENDS Integers, Sequences, FiniteSets, TLC

\* ------------------------------------------------------------------ bounds

\* New (cursor-advancing) messages the chat server delivers in one run.
MaxNew == 3
\* Message identifiers the chat server hands out.
MaxMsgId == 2
\* send calls in one run of the publisher on its own.
MaxCalls == 2

\* ------------------------------------------------------- program constants

\* wait_until_ready(tries=6): the readiness poll of send.
ReadyTries == 6
\* create_message(tries=3): message-post attempts.
PostTries == 3
\* wait_until_ready(orig_key, tries=3, delay=0.7): the poll after a soft failure.
RewaitTries == 3
\* text.lower()[7:] in ballspawn.
CatchOffset == 7
\* text[6:] in monitor_messages.
ViewOffset == 6

\* ----------------------------------------------------------------- strings

UpperChars == <<"A","B","C","D","E","F","G","H","I","J","K","L","M",
                "N","O","P","Q","R","S","T","U","V","W","X","Y","Z">>
LowerChars == <<"a","b","c","d","e","f","g","h","i","j","k","l","m",
                "n","o","p","q","r","s","t","u","v","w","x","y","z">>

\* str.lower() on one character.
LowerChar(c) ==
  IF \E i \in 1..Len(UpperChars) : UpperChars[i] = c
  THEN LowerChars[CHOOSE i \in 1..Len(UpperChars) : UpperChars[i] = c]
  ELSE c

\* str.lower()
Lower(s) == [i \in 1..Len(s) |-> LowerChar(s[i])]

\* s[n:]
Drop(s, n) == IF n >= Len(s) THEN <<>> ELSE SubSeq(s, n + 1, Len(s))

\* s[i..j] as a slice that may be empty
Slice(s, i, j) == IF i > j THEN <<>> ELSE SubSeq(s, i, j)

\* sub occurs in s at position i
OccursAt(s, sub, i) ==
  /\ i >= 1
  /\ i + Len(sub) - 1 <= Len(s)
  /\ \A k \in 1..Len(sub) : s[i + k - 1] = sub[k]

\* sub in s
Contains(s, sub) == \E i \in 1..(Len(s) + 1) : OccursAt(s, sub, i)

\* x in list
InList(x, l) == \E i \in 1..Len(l) : l[i] = x

\* [f(x) for x in l] with f = str.lower
LowerAll(l) == [i \in 1..Len(l) |-> Lower(l[i])]

IsSpace(c) == c = " "

\* The positions of sep in s, in order.
RECURSIVE SepPositions(_, _, _)
SepPositions(s, sep, from) ==
  IF from > Len(s) THEN <<>>
  ELSE IF s[from] = sep THEN <<from>> \o SepPositions(s, sep, from + 1)
  ELSE SepPositions(s, sep, from + 1)

\* str.split(sep) with an explicit one-character separator: empty fields are kept,
\* and the empty string splits to [''].
Split(s, sep) ==
  LET ps == SepPositions(s, sep, 1)
      n  == Len(ps)
      lo(k) == IF k = 1 THEN 1 ELSE ps[k - 1] + 1
      hi(k) == IF k = n + 1 THEN Len(s) ELSE ps[k] - 1
  IN [k \in 1..(n + 1) |-> Slice(s, lo(k), hi(k))]

\* str.strip()
Strip(s) ==
  LET idx == {i \in 1..Len(s) : ~IsSpace(s[i])}
  IN IF idx = {} THEN <<>>
     ELSE LET a == CHOOSE i \in idx : \A j \in idx : i <= j
              b == CHOOSE i \in idx : \A j \in idx : i >= j
          IN SubSeq(s, a, b)

\* The end of the maximal run of characters satisfying the class from position i:
\* the first position >= i that is past the end or outside the class.
RECURSIVE RunEnd(_, _, _)
RunEnd(s, i, space) ==
  IF i > Len(s) \/ IsSpace(s[i]) # space THEN i ELSE RunEnd(s, i + 1, space)

\* ------------------------------------------------------------ chat texts

CmdBall == <<"!","b","a","l","l">>
CmdList == <<"!","l","i","s","t">>
CmdGive == <<"!","g","i","v","e">>
CmdView == <<"!","v","i","e","w">>
MentionOpen == <<"<","@">>

\* The user identifiers of bubble.history (str(messages[0]["user"]["id"])).
User1 == <<"1">>
User2 == <<"2">>
Users == {User1, User2}
\* str("") of the empty fetch result
NoUser == <<>>

\* The message texts the chat server may deliver.
TxtGiveGo2  == <<"!","g","i","v","e"," ","G","o"," ","<","@","2",">">>
TxtGiveBad  == <<"!","g","i","v","e"," ","G","o">>
TxtGiveView == <<"!","g","i","v","e"," ","G","o"," ","<","@","2",">"," ","!","v","i","e","w">>
TxtViewWc   == <<"!","v","i","e","w"," ","w","c">>
TxtViewGo   == <<"!","v","i","e","w"," ","G","O">>
TxtViewZz   == <<"!","v","i","e","w"," ","z","z">>
TxtViewNone == <<"!","v","i","e","w">>
TxtCatchWc  == <<"!","c","a","t","c","h"," ","W","c">>
TxtCatchZz  == <<"!","c","a","t","c","h"," ","z","z">>
TxtOtherWc  == <<"h","e","l","l","o",","," ","w","c">>

Texts == {CmdBall, CmdList, TxtGiveGo2, TxtGiveBad, TxtGiveView, TxtViewWc,
          TxtViewGo, TxtViewZz, TxtViewNone, TxtCatchWc, TxtCatchZz, TxtOtherWc}

\* ----------------------------------------------------------------- catalog

NameGo == <<"G","o">>
NameNu == <<"N","u">>
ImgGo  == <<"g",".","p","n","g">>
ImgNu  == <<"n",".","m","p","4">>
AltGo  == <<"m","t"," ","w","c">>
Dir    == <<"b","a","l","l","s","/">>

\* balls.csv after its header row: name, image, rarity, space-separated alternates.
\* The second entry has no alternate name.
Catalog == << [name |-> NameGo, image |-> ImgGo, rarity |-> <<"1">>, alts |-> AltGo],
              [name |-> NameNu, image |-> ImgNu, rarity |-> <<"2">>, alts |-> <<>>] >>

\* random.randint(1,2): the rows ballspawn may pick.
SpawnRows == 1..2

\* names = [x.lower() for x in ball[3].split(' ')]
AcceptedNames(ball) == LowerAll(Split(ball.alts, " "))

\* text.lower()[7:] in names
IsCatch(text, names) == InList(Drop(Lower(text), CatchOffset), names)

\* [main_name] + parts[3].split(" "), lowered
AllNames(row) == LowerAll(<<row.name>> \o Split(row.alts, " "))

\* The catalog loop of view: the first row one of whose names is ball.lower(); 0 if none.
ResolveRow(ball) ==
  LET hits == {i \in 1..Len(Catalog) : InList(Lower(ball), AllNames(Catalog[i]))}
  IN IF hits = {} THEN 0 ELSE CHOOSE i \in hits : \A j \in hits : i <= j

\* --------------------------------------------------------------- media kind

MimePng == <<"i","m","a","g","e","/","p","n","g">>
MimeMp4 == <<"v","i","d","e","o","/","m","p","4">>
MimeMp3 == <<"a","u","d","i","o","/","m","p","e","g">>

\* mimetypes.guess_type(file_path)[0] or "": decided by the text after the last dot.
GuessType(path) ==
  LET ext == Split(path, ".")[Len(Split(path, "."))]
  IN IF Len(Split(path, ".")) < 2 THEN <<>>
     ELSE IF Lower(ext) = <<"p","n","g">> THEN MimePng
     ELSE IF Lower(ext) = <<"m","p","4">> THEN MimeMp4
     ELSE IF Lower(ext) = <<"m","p","3">> THEN MimeMp3
     ELSE <<>>

\* type_map.get(mime.split("/", 1)[0], "PHOTO")
PresetOf(path) ==
  LET category == Split(GuessType(path), "/")[1]
  IN IF category = <<"i","m","a","g","e">> THEN "PHOTO"
     ELSE IF category = <<"v","i","d","e","o">> THEN "VIDEO"
     ELSE IF category = <<"a","u","d","i","o">> THEN "AUDIO"
     ELSE "PHOTO"

\* ------------------------------------------------------------ !give parsing

\* re.match(r"!give\s+(\S+)\s+<@(.+)>", input_str): anchored at the start only; the
\* greedy (.+) runs to the last ">" of the text. group(1) and group(2).strip().
GiveMatch(text) ==
  LET i1 == Len(CmdGive) + 1
      i2 == RunEnd(text, i1, TRUE)
      i3 == RunEnd(text, i2, FALSE)
      i4 == RunEnd(text, i3, TRUE)
      gt == {p \in (i4 + 3)..Len(text) : text[p] = ">"}
      ok == /\ OccursAt(text, CmdGive, 1)
            /\ i2 > i1 /\ i3 > i2 /\ i4 > i3
            /\ OccursAt(text, MentionOpen, i4)
            /\ gt # {}
  IN IF ~ok THEN [ok |-> FALSE, ball |-> <<>>, receiver |-> <<>>]
     ELSE [ok |-> TRUE,
           ball |-> SubSeq(text, i2, i3 - 1),
           receiver |-> Strip(SubSeq(text, i4 + 2,
                               (CHOOSE p \in gt : \A q \in gt : p >= q) - 1))]

\* ------------------------------------------------------------------- state

VARIABLES
  pc,               \* where the single control thread is (monitor_messages and its handlers)
  txt, uid,         \* text and user_id of monitor_messages
  cur,              \* the id of the message monitor_messages is handling (0: none)
  w,                \* text, user_id of the ballspawn wait loop, and the id behind them
  sp,               \* the catalog row ballspawn picked (0: none)
  last_message_id,  \* the module global; 0 stands for the initial ""
  resp,             \* the last bubble.history response
  news,             \* cursor-advancing messages delivered so far
  db,               \* db.json
  mon_data,         \* the local `data` of monitor_messages, which outlives an iteration
  result,           \* the result of the running game operation
  call,             \* the arguments of the send call a handler is in
  ndisp,            \* per message id, how often it was routed to a handler (capped at 2)
  ran,              \* the handlers run for the message monitor_messages is handling
  err,              \* the exception that ended the process ("" while it runs)
  upc,              \* where the running ProntoUploader.send call is
  u,                \* the locals of send / create_message / wait_until_ready
  ures,             \* how the last send call ended
  g,                \* the requests the running send call has issued
  calls,            \* create_message calls so far
  uuid_ctr,         \* uuid.uuid4() calls so far
  wire              \* <<create_message call, uuid>> of every message post so far

gamevars == <<pc, txt, uid, cur, w, sp, last_message_id, resp, news, db, mon_data,
              result, call, ndisp, ran, err>>
pubvars  == <<upc, u, ures, g, calls, uuid_ctr, wire>>
vars     == <<gamevars, pubvars>>

MsgIds == 1..MaxMsgId

\* ----------------------------------------------------------------- replies

\* The message texts the bot composes (f-strings), kept as their parts.
Reply(kind, a, b, c, lines) ==
  [kind |-> kind, a |-> a, b |-> b, c |-> c, lines |-> lines]

NoText == Reply("", <<>>, <<>>, <<>>, <<>>)

\* ------------------------------------------------------------------ db.json

\* json.load(open("db.json")) succeeded, and its value; the except branch otherwise.
Readable(store) == store.st = "ok"

Stored(data) == [st |-> "ok", data |-> data]

EmptyData == [x \in {} |-> <<>>]

\* data with data[k] = v
Put(data, k, v) == [x \in (DOMAIN data) \cup {k} |-> IF x = k THEN v ELSE data[x]]

\* data.get(k, [])
Get(data, k) == IF k \in DOMAIN data THEN data[k] ELSE <<>>

\* Remove taking every occurrence of x.
RemoveAll(l, x) == SelectSeq(l, LAMBDA y : y # x)

\* list.remove(x): the first occurrence goes
Remove(l, x) ==
  LET i == CHOOSE k \in 1..Len(l) : l[k] = x /\ \A j \in 1..(k - 1) : l[j] # x
  IN SubSeq(l, 1, i - 1) \o SubSeq(l, i + 1, Len(l))

\* The stores a run may start from: no file, a corrupt file, and valid ones.
InitStores ==
  { [st |-> "missing", data |-> EmptyData],
    [st |-> "corrupt", data |-> EmptyData],
    Stored(EmptyData),
    Stored(Put(EmptyData, User1, <<NameGo>>)),
    Stored(Put(Put(EmptyData, User1, <<NameGo, NameNu, NameGo>>), User2, <<NameNu>>)) }

\* ------------------------------------------------------------ bubble.history

\* The responses of POST api/v1/bubble.history. status 0: requests.post raised.
Message(id, text, user) == [id |-> id, message |-> text, user |-> user]

HistoryResponses ==
  { [status |-> 0,   messages |-> <<>>],
    [status |-> 500, messages |-> <<>>],
    [status |-> 200, messages |-> <<>>] }
  \cup { [status |-> 200, messages |-> <<Message(i, t, x)>>] :
           i \in MsgIds, t \in Texts, x \in Users }

\* FetchLatest without the comparison of the id with the global.
FetchLatestNoCompare(r, last) ==
  IF r.status = 0
  THEN [raise |-> "ConnectionError", text |-> <<>>, user |-> NoUser, last |-> last]
  ELSE IF r.status = 200
  THEN IF Len(r.messages) = 0
       THEN [raise |-> "IndexError", text |-> <<>>, user |-> NoUser, last |-> last]
       ELSE [raise |-> "", text |-> r.messages[1].message,
             user |-> r.messages[1].user, last |-> r.messages[1].id]
  ELSE [raise |-> "", text |-> <<>>, user |-> NoUser, last |-> last]

\* fetch_latest_message() on response r with the global at `last`:
\* the exception it raises ("" if none), its return value and the global afterwards.
FetchLatest(r, last) ==
  IF r.status = 0
  THEN [raise |-> "ConnectionError", text |-> <<>>, user |-> NoUser, last |-> last]
  ELSE IF r.status = 200
  THEN IF Len(r.messages) = 0
       THEN [raise |-> "IndexError", text |-> <<>>, user |-> NoUser, last |-> last]
       ELSE IF r.messages[1].id # last
       THEN [raise |-> "", text |-> r.messages[1].message,
             user |-> r.messages[1].user, last |-> r.messages[1].id]
       ELSE [raise |-> "", text |-> <<>>, user |-> NoUser, last |-> last]
  ELSE [raise |-> "", text |-> <<>>, user |-> NoUser, last |-> last]

\* What the response adds to resp: its status, the id of messages[0] (0: none), and
\* whether that id differs from the cursor the fetch compared it with.
Seen(r, last) ==
  [status |-> r.status,
   id     |-> IF Len(r.messages) = 0 THEN 0 ELSE r.messages[1].id,
   new    |-> Len(r.messages) > 0 /\ r.messages[1].id # last]

\* The server delivers a cursor-advancing message only while the run's budget lasts.
Deliverable(r, last) ==
  (r.status = 200 /\ Len(r.messages) > 0 /\ r.messages[1].id # last) => news < MaxNew

\* ---------------------------------------------------------- ProntoUploader

\* The normalized variants GET .../normalized may report (data.normalized);
\* width and height 0 stand for a variant that carries none (.get gives None).
NormVariants ==
  { [key |-> "nk1", name |-> "a.png", filesize |-> 10, mimetype |-> "image/png",
     width |-> 4, height |-> 3],
    [key |-> "nk2", name |-> "a.mp3", filesize |-> 20, mimetype |-> "audio/mpeg",
     width |-> 0, height |-> 0] }

\* PUT /api/files
UploadResponses == { [status |-> 200, key |-> "k1"], [status |-> 500, key |-> ""] }

\* GET /api/clients/files/{key}/normalized
StatusResponses ==
  { [status |-> 500, normalized |-> <<>>], [status |-> 200, normalized |-> <<>>] }
  \cup { [status |-> 200, normalized |-> <<v>>] : v \in NormVariants }

\* POST /api/v1/message.create; invalid_key: the body contains INVALID_ATTACHMENT_FILE_KEY
PostResponses ==
  { [status |-> 200, invalid_key |-> FALSE, id |-> "m1"],
    [status |-> 400, invalid_key |-> TRUE,  id |-> ""],
    [status |-> 400, invalid_key |-> FALSE, id |-> ""],
    [status |-> 500, invalid_key |-> TRUE,  id |-> ""] }

\* r.raise_for_status() raises
Raises(r) == r.status >= 400 /\ r.status < 600

IdleU == [file |-> <<>>, text |-> NoText, orig_key |-> "", preset |-> "",
          norm_key |-> "", meta |-> <<>>, media_type |-> "", uuid |-> 0,
          attempt |-> 0, wtry |-> 0]

\* What the running send call has put on the wire. posts: the payloads posted;
\* queries: phase and preset of the status queries; uploads, nready, nmeta, nrewait:
\* the requests counted by kind; softs: posts answered by the soft failure;
\* ready_seen: the readiness poll saw a normalized variant; norm: what the metadata
\* fetch was answered; answers: status and body of the response to each post.
IdleG == [posts |-> <<>>, queries |-> {}, uploads |-> 0, nready |-> 0, nmeta |-> 0,
          nrewait |-> 0, softs |-> 0, ready_seen |-> FALSE, norm |-> <<>>,
          answers |-> <<>>]

\* What g keeps of the response r to a post.
Answer(r) == [status |-> r.status, invalid_key |-> r.invalid_key]

NoRes == [kind |-> "", id |-> ""]
Raised(kind) == [kind |-> kind, id |-> ""]
Returned(id) == [kind |-> "ok", id |-> id]

\* str(uuid.uuid4()): a value no earlier call returned
Uuid4(n) == n + 1

\* if (orig_key != "" and norm_key != "" and meta != "")
HasMedia(ur) == ur.orig_key # "" /\ ur.norm_key # "" /\ ur.meta # <<>>

\* Payload with the uuid drawn anew in every pass of the loop.
PayloadFreshUuid(ur) ==
  [uuid |-> ur.uuid + ur.attempt * (MaxCalls + 2), message |-> ur.text,
   messagemedia |-> IF HasMedia(ur)
                    THEN << [mediatype |-> ur.media_type,
                             title     |-> ur.meta[1].name,
                             filesize  |-> ur.meta[1].filesize,
                             mimetype  |-> ur.meta[1].mimetype,
                             width     |-> ur.meta[1].width,
                             height    |-> ur.meta[1].height,
                             uuid      |-> ur.norm_key] >>
                    ELSE <<>>]

\* The payload of one message.create attempt: payload_stub and the per-attempt fields.
Payload(ur) ==
  IF HasMedia(ur)
  THEN [uuid |-> ur.uuid, message |-> ur.text,
        messagemedia |-> << [mediatype |-> ur.media_type,
                             title     |-> ur.meta[1].name,
                             filesize  |-> ur.meta[1].filesize,
                             mimetype  |-> ur.meta[1].mimetype,
                             width     |-> ur.meta[1].width,
                             height    |-> ur.meta[1].height,
                             uuid      |-> ur.norm_key] >>]
  ELSE [uuid |-> ur.uuid, message |-> ur.text, messagemedia |-> <<>>]

\* meta = {"name": ..., "filesize": ..., "mimetype": ..., "width": ..., "height": ...}
MetaOf(norm_data) ==
  [name |-> norm_data.name, filesize |-> norm_data.filesize,
   mimetype |-> norm_data.mimetype, width |-> norm_data.width,
   height |-> norm_data.height]

\* NormData falling back on the upload itself when the response holds no variant.
NormDataLenient(r) ==
  IF r.normalized # <<>> THEN r.normalized
  ELSE << [key |-> "k1", name |-> "raw", filesize |-> 0, mimetype |-> "",
           width |-> 0, height |-> 0] >>

\* norm_data = r.json()["data"]["normalized"]: the variant of the response, or
\* nothing (a KeyError) when the response holds none.
NormData(r) == r.normalized

\* WaitStep with the loop making one pass more than `tries`.
WaitStepOneMore(r, attempt, tries) ==
  IF Raises(r) THEN "raise"
  ELSE IF r.normalized # <<>> THEN "return"
  ELSE IF attempt <= tries THEN "again"
  ELSE "return"

\* One pass of the wait_until_ready loop on response r at `attempt` of `tries`:
\* "raise" (raise_for_status), "return" (normalized, or the loop ran out), "again".
WaitStep(r, attempt, tries) ==
  IF Raises(r) THEN "raise"
  ELSE IF r.normalized # <<>> THEN "return"
  ELSE IF attempt < tries THEN "again"
  ELSE "return"

\* The preset of the wait_until_ready call after a soft failure (its default).
RewaitPreset(ur) == "PHOTO"

\* PostStep taking every 400 for the soft failure, whatever its body.
PostStepAny400(r) ==
  IF r.status = 400 THEN "soft"
  ELSE IF Raises(r) THEN "raise"
  ELSE "return"

\* One pass of the create_message loop on response r:
\* "soft" (wait and continue), "raise" (raise_for_status), "return".
PostStep(r) ==
  IF r.status = 400 /\ r.invalid_key THEN "soft"
  ELSE IF Raises(r) THEN "raise"
  ELSE "return"

\* MoreAttempts with the loop running one pass too long.
MoreAttemptsOffByOne(attempt, tries) == attempt <= tries

\* for attempt in range(1, tries + 1): after `continue`, another pass or the loop is over.
MoreAttempts(attempt, tries) == attempt < tries

\* create_message(orig_key, norm_key, meta, text, media_type) is entered:
\* payload_stub is built, and the media or the text-only branch is taken.
EnterCreate(orig, norm, meta, text, media_type) ==
  LET ur == [IdleU EXCEPT !.file = u.file, !.text = text, !.orig_key = orig,
                          !.preset = u.preset, !.norm_key = norm, !.meta = meta,
                          !.media_type = media_type, !.uuid = Uuid4(uuid_ctr),
                          !.attempt = IF orig # "" /\ norm # "" /\ meta # <<>>
                                      THEN 1 ELSE 0]
  IN /\ u' = ur
     /\ upc' = IF HasMedia(ur) THEN "post" ELSE "textpost"
     /\ calls' = calls + 1
     /\ uuid_ctr' = uuid_ctr + 1

\* The files and captions send is called with: the catalog's images, an audio file,
\* a file of no known type, and no file (a text-only message).
Files == { <<>>, Dir \o ImgGo, Dir \o ImgNu, <<"a",".","m","p","3">>, <<"r","a","w">> }
Captions == { NoText, Reply("spawned", <<>>, <<>>, <<>>, <<>>) }

\* The preset send chooses for each of these files.
Presets == [f \in Files |-> PresetOf(f)]

\* uploader.send(file_path, text) is called.
StartSend ==
  /\ upc = "idle"
  /\ calls < MaxCalls
  /\ \E file \in Files, text \in Captions :
       IF file # <<>>
       THEN /\ upc' = "upload"
            /\ u' = [IdleU EXCEPT !.file = file, !.text = text]
            /\ UNCHANGED <<calls, uuid_ctr>>
       ELSE /\ u' = [IdleU EXCEPT !.text = text, !.media_type = "PHOTO",
                                  !.uuid = Uuid4(uuid_ctr)]
            /\ upc' = "textpost"
            /\ calls' = calls + 1
            /\ uuid_ctr' = uuid_ctr + 1
  /\ ures' = NoRes
  /\ g' = IdleG
  /\ UNCHANGED <<wire, gamevars>>

\* The send call ends: it returns or raises.
Finish(res) ==
  /\ upc' = "done"
  /\ ures' = res

\* upload_file: PUT the file; info["key"]; the preset from the file's media type.
UploadFile ==
  /\ upc = "upload"
  /\ \E r \in UploadResponses :
       /\ g' = [g EXCEPT !.uploads = @ + 1]
       /\ IF Raises(r)
          THEN Finish(Raised("HTTPError")) /\ u' = u
          ELSE /\ u' = [u EXCEPT !.orig_key = r.key, !.preset = Presets[u.file],
                                 !.wtry = 1]
               /\ upc' = "ready"
               /\ ures' = ures
  /\ UNCHANGED <<calls, uuid_ctr, wire, gamevars>>

\* wait_until_ready(orig_key, preset=preset): one status query of the readiness poll.
ReadyQuery ==
  /\ upc = "ready"
  /\ \E r \in StatusResponses :
       LET step == WaitStep(r, u.wtry, ReadyTries)
       IN /\ g' = [g EXCEPT !.nready = @ + 1,
                            !.queries = @ \cup {[phase |-> "ready", preset |-> u.preset]},
                            !.ready_seen = (r.status = 200 /\ r.normalized # <<>>)]
          /\ CASE step = "raise"  -> Finish(Raised("HTTPError")) /\ u' = u
               [] step = "again"  -> /\ u' = [u EXCEPT !.wtry = @ + 1]
                                     /\ UNCHANGED <<upc, ures>>
               [] step = "return" -> /\ u' = [u EXCEPT !.wtry = 0]
                                     /\ upc' = "meta"
                                     /\ ures' = ures
  /\ UNCHANGED <<calls, uuid_ctr, wire, gamevars>>

\* send, steps 4 to 6: fetch the normalized metadata and enter create_message.
FetchMeta ==
  /\ upc = "meta"
  /\ \E r \in StatusResponses :
       /\ g' = [g EXCEPT !.nmeta = @ + 1,
                         !.queries = @ \cup {[phase |-> "meta", preset |-> u.preset]},
                         !.norm = r.normalized]
       /\ IF Raises(r)
          THEN Finish(Raised("HTTPError")) /\ UNCHANGED <<u, calls, uuid_ctr>>
          ELSE IF NormData(r) = <<>>
          THEN Finish(Raised("KeyError")) /\ UNCHANGED <<u, calls, uuid_ctr>>
          ELSE /\ EnterCreate(u.orig_key, NormData(r)[1].key,
                              <<MetaOf(NormData(r)[1])>>, u.text, u.preset)
               /\ ures' = ures
  /\ UNCHANGED <<wire, gamevars>>

\* create_message, media branch: one post attempt.
PostMedia ==
  /\ upc = "post"
  /\ \E r \in PostResponses :
       LET step == PostStep(r)
       IN /\ g' = [g EXCEPT !.posts = Append(@, Payload(u)),
                            !.answers = Append(@, Answer(r)),
                            !.softs = IF step = "soft" THEN @ + 1 ELSE @]
          /\ wire' = wire \cup {<<calls, Payload(u).uuid>>}
          /\ CASE step = "soft"   -> /\ u' = [u EXCEPT !.wtry = 1]
                                     /\ upc' = "rewait"
                                     /\ ures' = ures
               [] step = "raise"  -> Finish(Raised("HTTPError")) /\ u' = u
               [] step = "return" -> Finish(Returned(r.id)) /\ u' = u
  /\ UNCHANGED <<calls, uuid_ctr, gamevars>>

\* create_message after a soft failure: wait_until_ready(orig_key, tries=3, delay=0.7),
\* one status query of it; when it returns, `continue`.
RewaitQuery ==
  /\ upc = "rewait"
  /\ \E r \in StatusResponses :
       LET step == WaitStep(r, u.wtry, RewaitTries)
       IN /\ g' = [g EXCEPT !.nrewait = @ + 1,
                            !.queries = @ \cup {[phase |-> "rewait",
                                                 preset |-> RewaitPreset(u)]}]
          /\ CASE step = "raise"  -> Finish(Raised("HTTPError")) /\ u' = u
               [] step = "again"  -> /\ u' = [u EXCEPT !.wtry = @ + 1]
                                     /\ UNCHANGED <<upc, ures>>
               [] step = "return" ->
                    IF MoreAttempts(u.attempt, PostTries)
                    THEN /\ u' = [u EXCEPT !.wtry = 0, !.attempt = @ + 1]
                         /\ upc' = "post"
                         /\ ures' = ures
                    ELSE Finish(Raised("RuntimeError")) /\ u' = [u EXCEPT !.wtry = 0]
  /\ UNCHANGED <<calls, uuid_ctr, wire, gamevars>>

\* create_message, text-only branch: one post, no retry.
PostText ==
  /\ upc = "textpost"
  /\ \E r \in PostResponses :
       /\ g' = [g EXCEPT !.posts = Append(@, Payload(u)),
                         !.answers = Append(@, Answer(r))]
       /\ wire' = wire \cup {<<calls, Payload(u).uuid>>}
       /\ IF Raises(r)
          THEN Finish(Raised("HTTPError"))
          ELSE Finish(Returned(r.id))
  /\ UNCHANGED <<u, calls, uuid_ctr, gamevars>>

\* The caller takes the outcome of the send call.
SendOver ==
  /\ upc = "done"
  /\ upc' = "idle"
  /\ u' = IdleU
  /\ g' = IdleG
  /\ ures' = NoRes
  /\ UNCHANGED <<calls, uuid_ctr, wire, gamevars>>

\* How a send call can end, by whether it has a file: return ("ok") or raise.
SendOutcomes(file) ==
  IF file # <<>> THEN {"ok", "HTTPError", "KeyError", "RuntimeError"}
  ELSE {"ok", "HTTPError"}

\* -------------------------------------------------------- monitor_messages

\* The four ifs of the loop body, in order.
Handlers == <<"ball", "list", "give", "view">>

Routed(text, k) ==
  CASE k = 1 -> text = CmdBall
    [] k = 2 -> text = CmdList
    [] k = 3 -> Contains(text, CmdGive)
    [] k = 4 -> Contains(text, CmdView)

\* Where control goes after the k-th if (k = 0: after the fetch): the next if whose
\* condition holds, or the next iteration.
NextStage(text, k) ==
  LET later == {j \in (k + 1)..Len(Handlers) : Routed(text, j)}
  IN IF later = {} THEN "poll"
     ELSE Handlers[CHOOSE j \in later : \A i \in later : j <= i]

Bump(n) == IF n < 2 THEN n + 1 ELSE n

\* The local `result` of the running game operation, and whether db.json was written.
NoResult == [reply |-> NoText, wrote |-> FALSE]

\* uploader.send(file, text) is called by a handler.
NoCall == [file |-> <<>>, text |-> NoText]
Send(file, text) == call' = [file |-> file, text |-> text]

\* The process ends with an uncaught exception.
Crash(kind) ==
  /\ pc' = "crashed"
  /\ err' = kind

\* text, user_id and the id behind them while a handler may still read them; once
\* control is back at the fetch they are dead (the next pass assigns them first).
Locals(stage, text, user, id) ==
  IF stage = "poll"
  THEN txt' = <<>> /\ uid' = NoUser /\ cur' = 0
  ELSE txt' = text /\ uid' = user /\ cur' = id

\* msg = fetch_latest_message(); text = msg[0]; user_id = str(msg[1]); the ifs begin.
Poll ==
  /\ pc = "poll"
  /\ \E r \in HistoryResponses :
       LET f == FetchLatest(r, last_message_id)
       IN /\ Deliverable(r, last_message_id)
          /\ resp' = Seen(r, last_message_id)
          /\ last_message_id' = f.last
          /\ news' = IF f.last # last_message_id THEN news + 1 ELSE news
          /\ IF f.raise # ""
             THEN Crash(f.raise) /\ UNCHANGED <<txt, uid, cur, ndisp>>
             ELSE /\ Locals(NextStage(f.text, 0), f.text, f.user, f.last)
                  /\ pc' = NextStage(f.text, 0)
                  /\ ndisp' = IF NextStage(f.text, 0) # "poll"
                              THEN [ndisp EXCEPT ![f.last] = Bump(@)] ELSE ndisp
                  /\ err' = err
  /\ ran' = {}
  /\ UNCHANGED <<w, sp, db, mon_data, result, call, pubvars>>

\* A handler's send call ends. Nothing in the loop catches what it raises.
\* When it returns, control goes on to the ifs after the k-th.
Replied(at, k) ==
  /\ pc = at
  /\ \E o \in SendOutcomes(call.file) :
       IF o # "ok"
       THEN Crash(o) /\ UNCHANGED <<txt, uid, cur, ran>>
       ELSE /\ pc' = NextStage(txt, k)
            /\ Locals(NextStage(txt, k), txt, uid, cur)
            /\ ran' = IF NextStage(txt, k) = "poll" THEN {} ELSE ran
            /\ err' = err
  /\ result' = NoResult
  /\ call' = NoCall
  /\ UNCHANGED <<w, sp, last_message_id, resp, news, db, mon_data, ndisp, pubvars>>

\* ---------------------------------------------------------------- ballspawn

\* ballspawn() up to its first send: a random row, and the announcement with its image.
Ball ==
  /\ pc = "ball"
  /\ \E row \in SpawnRows :
       /\ sp' = row
       /\ Send(Dir \o Catalog[row].image, Reply("spawned", <<>>, <<>>, <<>>, <<>>))
  /\ pc' = "ball_announce"
  /\ ran' = ran \cup {"ball"}
  /\ UNCHANGED <<txt, uid, cur, w, last_message_id, resp, news, db, mon_data,
                 result, ndisp, err, pubvars>>

\* The announcement ends; `except Exception` logs whatever it raised. The wait begins.
BallAnnounced ==
  /\ pc = "ball_announce"
  /\ \E o \in SendOutcomes(call.file) : pc' = "wait"
  /\ call' = NoCall
  /\ UNCHANGED <<txt, uid, cur, w, sp, last_message_id, resp, news, db, mon_data,
                 result, ndisp, ran, err, pubvars>>

\* One pass of the wait loop: fetch; on an accepted name, announce the catch.
SpawnPoll ==
  /\ pc = "wait"
  /\ \E r \in HistoryResponses :
       LET f == FetchLatest(r, last_message_id)
           caught == IsCatch(f.text, AcceptedNames(Catalog[sp]))
       IN /\ Deliverable(r, last_message_id)
          /\ resp' = Seen(r, last_message_id)
          /\ last_message_id' = f.last
          /\ news' = IF f.last # last_message_id THEN news + 1 ELSE news
          /\ IF f.raise # ""
             THEN Crash(f.raise) /\ UNCHANGED <<w, ndisp, call>>
             ELSE /\ err' = err
                  /\ IF caught
                     THEN /\ w' = [txt |-> f.text, uid |-> f.user,
                                   id |-> IF f.last # last_message_id THEN f.last ELSE 0]
                          /\ Send(<<>>, Reply("caught", f.user, Catalog[sp].name,
                                              <<>>, <<>>))
                          /\ pc' = "catch_announce"
                          /\ ndisp' = IF f.last # last_message_id
                                      THEN [ndisp EXCEPT ![f.last] = Bump(@)]
                                      ELSE ndisp
                     ELSE /\ pc' = "wait"
                          /\ UNCHANGED <<w, ndisp, call>>
  /\ UNCHANGED <<txt, uid, cur, sp, db, mon_data, result, ran, pubvars>>

\* The credit of a catch: load db.json (or {}), append the name, dump.
Credit(store, user_id, name) ==
  LET data  == IF Readable(store) THEN store.data ELSE EmptyData
      data1 == IF user_id \in DOMAIN data THEN data ELSE Put(data, user_id, <<>>)
  IN Stored(Put(data1, user_id, Append(data1[user_id], name)))

\* The catch announcement ends (nothing catches what it raises); then the credit; break.
CatchStore ==
  /\ pc = "catch_announce"
  /\ \E o \in SendOutcomes(call.file) :
       IF o # "ok"
       THEN Crash(o) /\ UNCHANGED <<db, sp, w, txt, uid, cur, ran, result>>
       ELSE /\ db' = Credit(db, w.uid, Catalog[sp].name)
            /\ result' = [reply |-> call.text, wrote |-> TRUE]
            /\ sp' = 0
            /\ w' = [txt |-> <<>>, uid |-> NoUser, id |-> 0]
            /\ pc' = NextStage(txt, 1)
            /\ Locals(NextStage(txt, 1), txt, uid, cur)
            /\ ran' = IF NextStage(txt, 1) = "poll" THEN {} ELSE ran
            /\ err' = err
  /\ call' = NoCall
  /\ UNCHANGED <<last_message_id, resp, news, mon_data, ndisp, pubvars>>

\* -------------------------------------------------------------------- !list

\* Counter(balls).items(): the distinct names in order of first occurrence, with counts.
CounterItems(balls) ==
  LET firsts == {i \in 1..Len(balls) : \A j \in 1..(i - 1) : balls[j] # balls[i]}
      nth(k) == CHOOSE i \in firsts : Cardinality({j \in firsts : j < i}) = k - 1
  IN [k \in 1..Cardinality(firsts) |->
        [ball  |-> balls[nth(k)],
         count |-> Cardinality({j \in 1..Len(balls) : balls[j] = balls[nth(k)]})]]

\* The reply !list builds from balls: the "hasn't caught any balls yet" text is
\* assigned first and then overwritten by the header, to which the lines are added.
ListResult(user_id, balls) ==
  LET r1 == IF balls = <<>> THEN Reply("none_caught", user_id, <<>>, <<>>, <<>>)
            ELSE NoText
      r2 == Reply("list", user_id, <<>>, <<>>, <<>>)
  IN [r2 EXCEPT !.lines = CounterItems(balls)]

\* The try/except of !list: `data` is assigned when db.json loads, and is left as it
\* was (unbound in the first pass) when it does not.
ListLoad(store, local) ==
  IF Readable(store) THEN [bound |-> TRUE, data |-> store.data] ELSE local

\* if text == "!list": load, build the reply, send it.
List ==
  /\ pc = "list"
  /\ mon_data' = ListLoad(db, mon_data)
  /\ ran' = ran \cup {"list"}
  /\ IF ~ListLoad(db, mon_data).bound
     THEN Crash("UnboundLocalError") /\ UNCHANGED <<result, call>>
     ELSE /\ result' = [reply |-> ListResult(uid, Get(ListLoad(db, mon_data).data, uid)),
                        wrote |-> FALSE]
          /\ Send(<<>>, ListResult(uid, Get(ListLoad(db, mon_data).data, uid)))
          /\ pc' = "list_reply"
          /\ err' = err
  /\ UNCHANGED <<txt, uid, cur, w, sp, last_message_id, resp, news, db, ndisp, pubvars>>

ListReplied == Replied("list_reply", 2)

\* -------------------------------------------------------------------- !give

\* Give_ creating the giver's entry and dumping the store before the ownership test.
GiveTouchingStore(store, ball, giver, receiver) ==
  LET data == IF Readable(store) THEN store.data ELSE EmptyData
  IN IF giver \notin DOMAIN data \/ ~InList(ball, data[giver])
     THEN [store |-> Stored(Put(data, giver, Get(data, giver))), wrote |-> TRUE,
           reply |-> Reply("not_owned", giver, ball, <<>>, <<>>)]
     ELSE LET d1 == Put(data, giver, Remove(data[giver], ball))
              d2 == IF receiver \in DOMAIN d1 THEN d1 ELSE Put(d1, receiver, <<>>)
              d3 == Put(d2, receiver, Append(d2[receiver], ball))
          IN [store |-> Stored(d3), wrote |-> TRUE,
              reply |-> Reply("given", giver, ball, receiver, <<>>)]

\* give(ball, giver, receiver) on the store: the store afterwards, whether it was
\* written, and the result that is sent and returned.
Give_(store, ball, giver, receiver) ==
  LET data == IF Readable(store) THEN store.data ELSE EmptyData
  IN IF giver \notin DOMAIN data \/ ~InList(ball, data[giver])
     THEN [store |-> store, wrote |-> FALSE,
           reply |-> Reply("not_owned", giver, ball, <<>>, <<>>)]
     ELSE LET d1 == Put(data, giver, Remove(data[giver], ball))
              d2 == IF receiver \in DOMAIN d1 THEN d1 ELSE Put(d1, receiver, <<>>)
              d3 == Put(d2, receiver, Append(d2[receiver], ball))
          IN [store |-> Stored(d3), wrote |-> TRUE,
              reply |-> Reply("given", giver, ball, receiver, <<>>)]

\* give_ball_from_input(input_str, giver_id) up to the send of its reply.
GiveFromInput(store, input_str, giver_id) ==
  LET m == GiveMatch(input_str)
  IN IF ~m.ok
     THEN [store |-> store, wrote |-> FALSE,
           reply |-> Reply("invalid_format", <<>>, <<>>, <<>>, <<>>)]
     ELSE Give_(store, m.ball, giver_id, m.receiver)

\* if "!give" in text: give_ball_from_input(text, user_id)
Give ==
  /\ pc = "give"
  /\ LET o == GiveFromInput(db, txt, uid)
     IN /\ db' = o.store
        /\ result' = [reply |-> o.reply, wrote |-> o.wrote]
        /\ Send(<<>>, o.reply)
  /\ pc' = "give_reply"
  /\ ran' = ran \cup {"give"}
  /\ UNCHANGED <<txt, uid, cur, w, sp, last_message_id, resp, news, mon_data,
                 ndisp, err, pubvars>>

GiveReplied == Replied("give_reply", 3)

\* -------------------------------------------------------------------- !view

\* official_name.lower() not in [x.lower() for x in data[giver_id]], negated
OwnsOfficial(data, user, official) ==
  user \in DOMAIN data /\ InList(Lower(official), LowerAll(data[user]))

\* view(ball, user_id) up to its send: the file and the text it sends.
View_(store, ball, user) ==
  LET row == ResolveRow(ball)
  IN IF row = 0
     THEN [file |-> <<>>, reply |-> Reply("name_not_found", <<>>, <<>>, <<>>, <<>>)]
     ELSE IF ~Readable(store)
     THEN [file |-> <<>>, reply |-> Reply("db_error", <<>>, <<>>, <<>>, <<>>)]
     ELSE IF ~OwnsOfficial(store.data, user, Catalog[row].name)
     THEN [file |-> <<>>,
           reply |-> Reply("view_not_owned", <<>>, Catalog[row].name, <<>>, <<>>)]
     ELSE [file |-> Dir \o Catalog[row].image, reply |-> NoText]

\* if "!view" in text: view(text[6:], user_id)
View ==
  /\ pc = "view"
  /\ LET o == View_(db, Drop(txt, ViewOffset), uid)
     IN /\ result' = [reply |-> o.reply, wrote |-> FALSE]
        /\ Send(o.file, o.reply)
  /\ pc' = "view_reply"
  /\ ran' = ran \cup {"view"}
  /\ UNCHANGED <<txt, uid, cur, w, sp, last_message_id, resp, news, db, mon_data,
                 ndisp, err, pubvars>>

ViewReplied == Replied("view_reply", 4)

\* ------------------------------------------------------------- environment

\* db.json is deleted or damaged from outside the process.
StoreLost ==
  /\ pc \in {"poll", "wait"}
  /\ Readable(db)
  /\ \E st \in {"missing", "corrupt"} : db' = [st |-> st, data |-> EmptyData]
  /\ UNCHANGED <<pc, txt, uid, cur, w, sp, last_message_id, resp, news, mon_data,
                 result, call, ndisp, ran, err, pubvars>>

\* ------------------------------------------------------------ specification

InitPublisher ==
  /\ upc = "idle"
  /\ u = IdleU
  /\ ures = NoRes
  /\ g = IdleG
  /\ calls = 0
  /\ uuid_ctr = 0
  /\ wire = {}

InitGame ==
  /\ pc = "poll"
  /\ txt = <<>>
  /\ uid = NoUser
  /\ cur = 0
  /\ w = [txt |-> <<>>, uid |-> NoUser, id |-> 0]
  /\ sp = 0
  /\ last_message_id = 0
  /\ resp = [status |-> 0, id |-> 0, new |-> FALSE]
  /\ news = 0
  /\ mon_data = [bound |-> FALSE, data |-> EmptyData]
  /\ result = NoResult
  /\ call = NoCall
  /\ ndisp = [i \in MsgIds |-> 0]
  /\ ran = {}
  /\ err = ""

\* The process starts: monitor_messages() with whatever db.json there is.
Init ==
  /\ InitGame
  /\ db \in InitStores
  /\ InitPublisher

Next ==
  \/ Poll
  \/ Ball
  \/ BallAnnounced
  \/ SpawnPoll
  \/ CatchStore
  \/ List
  \/ ListReplied
  \/ Give
  \/ GiveReplied
  \/ View
  \/ ViewReplied
  \/ StoreLost

Spec == Init /\ [][Next]_vars

\* The publisher on its own: send calls, one after the other.
InitPublish ==
  /\ InitGame
  /\ db = Stored(EmptyData)
  /\ InitPublisher

NextPublish ==
  \/ StartSend
  \/ UploadFile
  \/ ReadyQuery
  \/ FetchMeta
  \/ PostMedia
  \/ RewaitQuery
  \/ PostText
  \/ SendOver

SpecPublish == InitPublish /\ [][NextPublish]_vars

\* The publisher where every request is answered and the process keeps running:
\* a pending step of send is eventually taken.
SpecPublishLive == InitPublish /\ [][NextPublish]_vars /\ WF_vars(NextPublish)

\* ------------------------------------------------------- the publisher's claims

\* The media entry of a payload carries exactly the fields of variant v under preset.
FromVariant(payload, v, preset) ==
  /\ Len(payload.messagemedia) = 1
  /\ payload.messagemedia[1] =
       [mediatype |-> preset, title |-> v.name, filesize |-> v.filesize,
        mimetype |-> v.mimetype, width |-> v.width, height |-> v.height,
        uuid |-> v.key]

\* A send call with a file whose upload succeeded is over.
PublishOver == upc = "done" /\ u.file # <<>> /\ u.orig_key # ""

\* The ways a send call ends are those the game's steps assume.
OutcomesCovered == upc = "done" => ures.kind \in SendOutcomes(u.file)

\* C1 as stated: publish with a successful upload ends either with the id of a posted
\* message whose media fields all come from a normalized asset, or with the
\* publish-exhausted error after exactly maxAttempts posts.
C1_TwoEndings ==
  PublishOver =>
    \/ /\ ures.kind = "ok"
       /\ Len(g.posts) >= 1
       /\ g.norm # <<>>
       /\ FromVariant(g.posts[Len(g.posts)], g.norm[1], u.preset)
    \/ /\ ures.kind = "RuntimeError"
       /\ Len(g.posts) = PostTries

\* C1 amended: publish with a successful upload ends in one of four ways: it returns
\* the id the service gave for a post whose media fields are those of the normalized
\* variant of the metadata response; it raises the exhausted error after exactly
\* maxAttempts posts, each answered by the soft failure; it raises an HTTP error (a
\* status query or a post was refused) after at most maxAttempts posts; or it raises
\* a KeyError before any post, the metadata response holding no normalized variant.
C1_Endings ==
  PublishOver =>
    \/ /\ ures.kind = "ok"
       /\ ures.id # ""
       /\ Len(g.posts) \in 1..PostTries
       /\ g.softs = Len(g.posts) - 1
       /\ g.norm # <<>>
       /\ \A i \in 1..Len(g.posts) : FromVariant(g.posts[i], g.norm[1], u.preset)
    \/ /\ ures.kind = "RuntimeError"
       /\ Len(g.posts) = PostTries
       /\ g.softs = PostTries
    \/ /\ ures.kind = "HTTPError"
       /\ Len(g.posts) <= PostTries
    \/ /\ ures.kind = "KeyError"
       /\ Len(g.posts) = 0
       /\ g.norm = <<>>

\* C1, its case: the exhausted error after maxAttempts soft failures.
C1_Witness ==
  PublishOver /\ ures.kind = "RuntimeError" /\ Len(g.posts) = PostTries

\* C2: the posts of one create_message call all carry one uuid, and the posts of two
\* different create_message calls never carry the same uuid.
C2_OneUuidPerCall ==
  /\ \A p \in wire, q \in wire : (p[1] = q[1]) <=> (p[2] = q[2])
  /\ \A i \in 1..Len(g.posts) : <<calls, g.posts[i].uuid>> \in wire

\* C2, its case: a second call has retried its post.
C2_Witness ==
  /\ Len(g.posts) >= 2
  /\ \E p \in wire : p[1] # calls

\* C5: every post that attaches media carries the key and the metadata of a
\* normalized variant that a status response held, the key not empty; no post attaches
\* anything else, whether or not the readiness poll saw a normalized variant.
C5_MediaNormalized ==
  \A i \in 1..Len(g.posts) :
    g.posts[i].messagemedia # <<>> =>
      /\ g.norm # <<>>
      /\ g.norm[1] \in NormVariants
      /\ g.norm[1].key # ""
      /\ FromVariant(g.posts[i], g.norm[1], u.preset)

\* C5, its case: media is posted after a readiness poll that ran out of attempts
\* without seeing a normalized variant.
C5_Witness ==
  /\ Len(g.posts) >= 1
  /\ g.posts[1].messagemedia # <<>>
  /\ g.nready = ReadyTries
  /\ ~g.ready_seen

\* ------------------------------------------------------------ the game's claims

\* A step of StoreLost, as opposed to a step of the process.
StoreLostStep == Readable(db) /\ ~Readable(db')

\* A step in which the process fetches the latest message.
FetchStep == pc \in {"poll", "wait"} /\ ~StoreLostStep

\* The fetch of this step was answered with a message whose id is the cursor's.
SameId == resp'.status = 200 /\ resp'.id # 0 /\ resp'.id = last_message_id

\* The fetch of this step was answered with a message whose id is not the cursor's.
OtherId == resp'.status = 200 /\ resp'.id # 0 /\ resp'.id # last_message_id

\* C3: in every fetch the cursor changes exactly when the response holds a message
\* whose id differs from it, and then it becomes that id; when a pass of the
\* dispatcher's loop fetches the id the fetch before returned, it runs none of the
\* four command handlers and changes neither the cursor nor the store.
C3_CursorAndSilence ==
  [][FetchStep =>
       /\ (last_message_id' # last_message_id) <=> OtherId
       /\ OtherId => last_message_id' = resp'.id
       /\ (pc = "poll" /\ SameId) =>
            /\ pc' = "poll"
            /\ ran' = {}
            /\ last_message_id' = last_message_id
            /\ db' = db
            /\ call' = call
            /\ result' = result
            /\ ndisp' = ndisp]_vars

\* C3, its case: the dispatcher has fetched, a second time, the id of a message it
\* had dispatched, and is back at the fetch.
C3_Witness ==
  /\ pc = "poll"
  /\ resp.status = 200
  /\ resp.id # 0
  /\ resp.id = last_message_id
  /\ ~resp.new
  /\ ndisp[resp.id] = 1
  /\ result = NoResult
  /\ ran = {}

\* C4: no message id is dispatched to a handler more than once in a run, whatever the
\* order in which the fetches return the ids.
C4_AtMostOnce == \A i \in MsgIds : ndisp[i] <= 1

\* The number of times x is in list l, and the number of items named n that user x
\* holds in the store.
Count(l, x) == Cardinality({i \in 1..Len(l) : l[i] = x})
Owned(store, x, n) == IF Readable(store) THEN Count(Get(store.data, x), n) ELSE 0

RECURSIVE SumLen(_, _)
SumLen(data, S) ==
  IF S = {} THEN 0
  ELSE LET x == CHOOSE y \in S : TRUE IN Len(data[x]) + SumLen(data, S \ {x})

\* The number of items in the store.
Total(store) == IF Readable(store) THEN SumLen(store.data, DOMAIN store.data) ELSE 0

Items   == {Catalog[r].name : r \in SpawnRows}
Holders == Users \cup {NoUser}

\* A well-formed give by a user who holds the named item is carried out in this step.
GiveOwnedStep ==
  /\ pc = "give"
  /\ pc' = "give_reply"
  /\ GiveMatch(txt).ok
  /\ Owned(db, uid, GiveMatch(txt).ball) >= 1

\* How the count of (x, n) changes when `from` hands one `name` to `to`.
Moved(x, n, from, to, name) ==
  Owned(db', x, n) =
    Owned(db, x, n) - (IF x = from /\ n = name THEN 1 ELSE 0)
                    + (IF x = to /\ n = name THEN 1 ELSE 0)

\* C6 as stated: a give of N from A, who holds it, to B lowers A's count of N by one,
\* raises B's by one, leaves every other count as it was and keeps the total.
C6_MovesOne ==
  [][GiveOwnedStep =>
       LET m == GiveMatch(txt)
       IN /\ Owned(db', uid, m.ball) = Owned(db, uid, m.ball) - 1
          /\ Owned(db', m.receiver, m.ball) = Owned(db, m.receiver, m.ball) + 1
          /\ \A x \in Holders \cup {m.receiver}, n \in Items :
               (n # m.ball \/ x \notin {uid, m.receiver}) =>
                 Owned(db', x, n) = Owned(db, x, n)
          /\ Total(db') = Total(db)]_vars

\* C6 amended: a give of N from A, who holds it, to a different user B lowers A's
\* count of N by one and raises B's by one; a give of N from A to A leaves A's count
\* of N as it was; either way every other count stays and the total is kept.
C6_MovesOneToAnother ==
  [][GiveOwnedStep =>
       LET m == GiveMatch(txt)
       IN /\ \A x \in Holders \cup {m.receiver}, n \in Items :
               Moved(x, n, uid, m.receiver, m.ball)
          /\ m.receiver # uid =>
               /\ Owned(db', uid, m.ball) = Owned(db, uid, m.ball) - 1
               /\ Owned(db', m.receiver, m.ball) = Owned(db, m.receiver, m.ball) + 1
          /\ m.receiver = uid => Owned(db', uid, m.ball) = Owned(db, uid, m.ball)
          /\ Total(db') = Total(db)
          /\ result'.wrote]_vars

\* C6, its case: an item has been handed to another user.
C6_Witness ==
  /\ pc = "give_reply"
  /\ result.reply.kind = "given"
  /\ result.wrote
  /\ result.reply.a # result.reply.c
  /\ Owned(db, result.reply.c, result.reply.b) >= 1

\* C7: a well-formed give by a user who is not in the store, or whose list lacks the
\* exact name, leaves the store as it was, writes nothing, and sends and returns the
\* not-owned result.
C7_NotOwned ==
  [][(/\ pc = "give"
      /\ GiveMatch(txt).ok
      /\ Owned(db, uid, GiveMatch(txt).ball) = 0) =>
       LET told == Reply("not_owned", uid, GiveMatch(txt).ball, <<>>, <<>>)
       IN /\ db' = db
          /\ result' = [reply |-> told, wrote |-> FALSE]
          /\ call' = [file |-> <<>>, text |-> told]
          /\ pc' = "give_reply"]_vars

\* C7, its case: the not-owned result is out, for a user the store does not hold.
C7_Witness ==
  /\ pc = "give_reply"
  /\ result.reply.kind = "not_owned"
  /\ call.text = result.reply
  /\ Readable(db)
  /\ result.reply.a \notin DOMAIN db.data

\* C8: no failure of a request that a handler makes ends the poll loop.
C8_LoopSurvives ==
  ~(pc = "crashed" /\ err \in {"HTTPError", "RuntimeError", "KeyError"})

\* C9: give, view and !list each act on a missing or corrupt store exactly as on a
\* store that holds no user, and the condition ends no run.
C9_MissingIsEmpty ==
  /\ err # "UnboundLocalError"
  /\ (pc = "give" /\ ~Readable(db)) =>
       GiveFromInput(db, txt, uid).reply =
         GiveFromInput(Stored(EmptyData), txt, uid).reply
  /\ (pc = "list" /\ ~Readable(db)) =>
       ListLoad(db, mon_data) = [bound |-> TRUE, data |-> EmptyData]
  /\ (pc = "view" /\ ~Readable(db)) =>
       View_(db, Drop(txt, ViewOffset), uid) =
         View_(Stored(EmptyData), Drop(txt, ViewOffset), uid)

\* C10: a fetch answered with an empty message list, or with an error status, leaves
\* the cursor as it was, invokes no handler and lets the loop go on.
C10_EmptyIsNoMessage ==
  [][(FetchStep /\ resp'.status \in {200, 500} /\ resp'.id = 0) =>
       /\ last_message_id' = last_message_id
       /\ pc' = pc
       /\ err' = err]_vars

\* ------------------------------------------------------------ the catch's claims

\* "!catch " and a text that is "!catch " followed by one of the names ball accepts.
CatchPrefix == <<"!","c","a","t","c","h"," ">>

CatchPhrase(text, ball) ==
  /\ Len(text) > Len(CatchPrefix)
  /\ SubSeq(text, 1, Len(CatchPrefix)) = CatchPrefix
  /\ InList(Lower(Drop(text, Len(CatchPrefix))), AcceptedNames(ball))

\* The wait loop has just read, in a new message, a catch phrase for the spawned entry.
CatchObserved ==
  /\ pc = "catch_announce"
  /\ w.id # 0
  /\ CatchPhrase(w.txt, Catalog[sp])

\* C11: once the wait loop has read the catch phrase of user U in a new message, U's
\* list in the store gains one unit of the spawned entry's official name, no other
\* list changes, and the wait is over: the dispatcher is at its next fetch.
C11_CatchCredits ==
  [][CatchObserved =>
       /\ \A x \in Holders, n \in Items :
            Owned(db', x, n) =
              Owned(db, x, n) + (IF x = w.uid /\ n = Catalog[sp].name THEN 1 ELSE 0)
       /\ pc' = "poll"
       /\ sp' = 0]_vars

\* -------------------------------------------------------------- view's claims

\* The alias names an entry is configured with: the words of its alternates field.
\* An empty field configures none.
ConfiguredAliases(row) ==
  {a \in {Split(row.alts, " ")[i] : i \in 1..Len(Split(row.alts, " "))} : a # <<>>}

\* The catalog rows that name stands for, as main name or as configured alias,
\* whatever its case.
NamedBy(name) ==
  {r \in 1..Len(Catalog) :
     \/ Lower(name) = Lower(Catalog[r].name)
     \/ \E a \in ConfiguredAliases(Catalog[r]) : Lower(name) = Lower(a)}

\* view by every configured alias of every entry does what view by the main name does.
AliasAsMain ==
  \A r \in 1..Len(Catalog) : \A a \in ConfiguredAliases(Catalog[r]) :
    /\ ResolveRow(a) = r
    /\ ResolveRow(Catalog[r].name) = r
    /\ View_(db, a, uid) = View_(db, Catalog[r].name, uid)
    /\ Readable(db) =>
         \/ View_(db, a, uid).reply.kind = "view_not_owned"
         \/ View_(db, a, uid).file = Dir \o Catalog[r].image

\* C12: when view is called, every configured alias of every entry resolves as the
\* entry's main name does and has the same ownership outcome for the caller (both
\* not owned, or both the entry's image); and if the name view is called with stands
\* for no entry, view answers that the name was not found.
C12_ViewByAlias ==
  pc = "view" =>
    /\ AliasAsMain
    /\ NamedBy(Drop(txt, ViewOffset)) = {} =>
         View_(db, Drop(txt, ViewOffset), uid).reply.kind = "name_not_found"

\* ------------------------------------------------- the publisher's retry claims

\* The response was the soft failure: 400 with INVALID_ATTACHMENT_FILE_KEY in its body.
SoftAnswer(a) == a.status = 400 /\ a.invalid_key

\* The response was a success.
GoodAnswer(a) == a.status >= 200 /\ a.status < 300

\* A message post is made in this step.
PostMade == Len(g'.posts) = Len(g.posts) + 1

\* C13: a post that is not the first of its call follows a post answered by the soft
\* failure, in the media branch, after a secondary readiness poll that made one to
\* three status queries; a media post answered by anything but the soft failure, and
\* every text-only post, ends the call with that post: it returns on success and
\* raises an HTTP error otherwise, and no further post is made.
C13_ResendOnlyAfterSoft ==
  [][/\ (PostMade /\ Len(g.posts) >= 1) =>
          /\ upc = "post"
          /\ \A i \in 1..Len(g.answers) : SoftAnswer(g.answers[i])
          /\ g.nrewait >= Len(g.posts)
     /\ (upc = "rewait" /\ upc' = "post") =>
          /\ u.wtry \in 1..RewaitTries
          /\ g'.nrewait = g.nrewait + 1
     /\ (upc' = "post" /\ upc # "post" /\ Len(g'.posts) >= 1) => upc = "rewait"
     /\ (PostMade /\ ~SoftAnswer(g'.answers[Len(g'.answers)])) =>
          /\ upc' = "done"
          /\ ures'.kind = IF GoodAnswer(g'.answers[Len(g'.answers)])
                          THEN "ok" ELSE "HTTPError"
     /\ (PostMade /\ upc = "textpost") =>
          /\ upc' = "done"
          /\ Len(g'.posts) = 1
          /\ ures'.kind = IF GoodAnswer(g'.answers[1]) THEN "ok" ELSE "HTTPError"
     /\ upc = "done" => ~PostMade]_vars

\* C13, its case: a second post has been made, after a soft failure and a secondary
\* poll of three queries.
C13_Witness ==
  /\ Len(g.posts) = 2
  /\ SoftAnswer(g.answers[1])
  /\ g.nrewait = RewaitTries

\* C14: the readiness poll of send makes at most six status queries and stops at the
\* first response that holds a normalized variant; after six responses without one,
\* send goes on to the metadata fetch; and after such a poll the metadata fetch ends
\* the call only by an HTTP error: otherwise send goes on to create_message, which
\* alone can turn down an asset that is not normalized yet.
C14_PollThenPost ==
  [][/\ g'.nready <= ReadyTries
     /\ (upc = "ready" /\ g'.nready = g.nready + 1 /\ g'.ready_seen) => upc' = "meta"
     /\ (upc = "ready" /\ g'.nready = ReadyTries /\ upc' # "done") => upc' = "meta"
     /\ (upc = "meta" /\ ~g.ready_seen /\ upc' = "done") =>
          ures'.kind = "HTTPError"]_vars

\* The requests a send call has made so far are within its budgets.
WithinBudget ==
  /\ g.uploads <= 1
  /\ g.nready <= ReadyTries
  /\ g.nmeta <= 1
  /\ Len(g.posts) <= PostTries
  /\ g.nrewait <= RewaitTries * g.softs
  /\ u.wtry <= (IF upc = "rewait" THEN RewaitTries ELSE ReadyTries)

\* C15: every send call makes at most one upload, six readiness queries, one metadata
\* query, maxAttempts posts and three secondary queries for each post answered by the
\* soft failure; and whatever the service answers, a send call that has begun ends:
\* it returns or raises.
C15_Terminates ==
  /\ []WithinBudget
  /\ (upc \in {"upload", "ready", "meta", "post", "rewait", "textpost"}) ~> (upc = "done")

\* C15, its case: a call has ended after using up every budget.
C15_Witness ==
  /\ upc = "done"
  /\ g.uploads = 1
  /\ g.nready = ReadyTries
  /\ g.nmeta = 1
  /\ Len(g.posts) = PostTries
  /\ g.nrewait = RewaitTries * PostTries

\* ------------------------------------------------------ the dispatcher's claims

\* C16: a fetch is made only when no handler is running (the dispatcher at the top
\* of its loop, or ballspawn in its wait); while ballspawn waits no command handler
\* is started, whatever messages arrive; and the wait ends only when a new message
\* holds a catch phrase for the spawned entry.
C16_Blocked ==
  [][/\ (resp' # resp \/ news' # news \/ last_message_id' # last_message_id) =>
          pc \in {"poll", "wait"}
     /\ pc = "wait" =>
          /\ pc' \in {"wait", "catch_announce", "crashed"}
          /\ ran' = ran
     /\ (pc = "wait" /\ pc' = "catch_announce") =>
          /\ w'.id # 0
          /\ CatchPhrase(w'.txt, Catalog[sp])]_vars

\* The position at which x first occurs in list l.
FirstAt(l, x) == CHOOSE i \in 1..Len(l) : l[i] = x /\ \A j \in 1..(i - 1) : l[j] # x

RECURSIVE SumCounts(_, _)
SumCounts(lines, k) == IF k = 0 THEN 0 ELSE lines[k].count + SumCounts(lines, k - 1)

\* lines has one line for each distinct name of balls, in order of first occurrence,
\* with the number of its occurrences.
LinesFor(lines, balls) ==
  /\ {lines[k].ball : k \in 1..Len(lines)} = {balls[i] : i \in 1..Len(balls)}
  /\ \A j \in 1..Len(lines), k \in 1..Len(lines) :
       j < k => /\ lines[j].ball # lines[k].ball
                /\ FirstAt(balls, lines[j].ball) < FirstAt(balls, lines[k].ball)
  /\ \A k \in 1..Len(lines) : lines[k].count = Count(balls, lines[k].ball)
  /\ SumCounts(lines, Len(lines)) = Len(balls)

\* C17: with a readable store, the reply the !list handler sends to user U has one
\* numbered line for each distinct name in U's list, in order of first occurrence,
\* with its count, the counts adding up to the length of the list; for a U with no
\* items it says that U has not caught anything; and the store stays as it was.
C17_ListReply ==
  [][(pc = "list" /\ Readable(db)) =>
       /\ db' = db
       /\ pc' = "list_reply"
       /\ call'.file = <<>>
       /\ call'.text.a = uid
       /\ LinesFor(call'.text.lines, Get(db.data, uid))
       /\ call'.text.kind = IF Get(db.data, uid) = <<>> THEN "none_caught"
                            ELSE "list"]_vars

\* C18: in a spawn wait the store is written only after a new message whose text is
\* a catch phrase for the spawned entry, and the credit goes to the sender of that
\* message, never to the empty user identifier; this for every entry, one with an
\* empty alternates field included.
C18_CatchOnlyOnPhrase ==
  [][(pc = "catch_announce" /\ db' # db) =>
       /\ w.id # 0
       /\ CatchPhrase(w.txt, Catalog[sp])
       /\ w.uid # NoUser
       /\ Owned(db', NoUser, Catalog[sp].name) = Owned(db, NoUser, Catalog[sp].name)]_vars

\* C19: in a send call with a file, every status query (of the readiness poll, of the
\* metadata fetch and of each poll after a soft failure) carries the preset chosen
\* from the file's media type, and so does the mediatype of every post.
C19_OnePreset ==
  u.file # <<>> =>
    /\ \A q \in g.queries : q.preset = PresetOf(u.file)
    /\ \A i \in 1..Len(g.posts) :
         g.posts[i].messagemedia # <<>> =>
           g.posts[i].messagemedia[1].mediatype = PresetOf(u.file)

\* C20: for each message the dispatcher reads, at most one of the ball, list, give
\* and view handlers runs, also when the text holds both "!give" and "!view".
C20_OneHandler == Cardinality(ran) <= 1

====
